---- MODULE Spec2Model ----
(***************************************************************************)
(* GnuCash-Helper: the helper functions of gnucash_helper.py applied to a  *)
(* GnuCash book (accounts, transactions with splits), and the Flask routes *)
(* of app.py that open the book, call one helper and close the book.       *)
(*                                                                         *)
(* Strings that the code compares, lower-cases or rewrites (account full   *)
(* names) are sequences of Unicode code points, so that Python's str       *)
(* ordering, str.lower and str.replace are computed, not assumed.  Money   *)
(* is an integer number of cents (Decimal with two places).                *)
(***************************************************************************)
EXTENDS Integers, Sequences, FiniteSets, TLC

VARIABLES
    accounts,       \* book.accounts: the account full names, in the book's row order
    transactions,   \* book.transactions as persisted in the book file, in file order
    session_new,    \* objects created in the open book's session by the last call
    call,           \* the last helper call and its arguments
    ret,            \* what that call returned: "True", "False", "None" (or "list")
    result,         \* the list of dicts built by last_n_transactions / the balances route
    NUM_TRANSACTIONS, \* the environment variable of that name: <<>> if unset, else <<n>>
    pc,             \* per request thread: its position in the route handler
    route,          \* per request thread: the route it serves
    handle,         \* per request thread: the book it holds open ("none", "ro", "rw")
    form,           \* per request thread: the validated form data of the index route
    leaked          \* number of books dropped without close() by ended requests

vars == <<accounts, transactions, session_new, call, ret, result,
          NUM_TRANSACTIONS, pc, route, handle, form, leaked>>

appvars == <<NUM_TRANSACTIONS, pc, route, handle, form, leaked>>

-----------------------------------------------------------------------------
(* Bounds of the model *)

MaxInitTxns == 2    \* transactions already in the book file when the model starts
MaxTxns == 3        \* cap on the number of transactions in the book file
MaxN == 3           \* the largest n passed to last_n_transactions
MaxAppTxns == 1     \* the same cap while the routes run
MaxLeaked == 1      \* cap on the counter of books dropped without close()

-----------------------------------------------------------------------------
(* Strings as code points *)

Colon == 58         \* ':'  the hierarchy delimiter of Account.fullname
Space == 32         \* ' '
Arrow == 10132      \* U+2794, the arrow glyph

Name_A   == <<65>>              \* "A"
Name_A_B == <<65, Colon, 66>>   \* "A:B", a child of "A"
Name_A2  == <<65, 50>>          \* "A2", a top-level account
Name_a_b == <<97, Colon, 98>>   \* "a:b", "A:B" typed in lower case
Name_X   == <<88>>              \* "X", no account of any book of the model

\* the account sets a book may hold: a child account comes with its parent
AccountSets == { {}, {Name_A}, {Name_A, Name_A_B}, {Name_A, Name_A_B, Name_A2} }

\* the <<debit_acct, credit_acct>> names a caller may pass to add_transaction
AccountArgs == { <<Name_A, Name_a_b>>, <<Name_A_B, Name_A>>,
                 <<Name_X, Name_A>>, <<Name_A, Name_X>>, <<Name_X, Name_X>> }

\* the amounts (in cents) a caller may pass: $12.50 and -$5.00
Amounts == {1250, -500}

\* the amounts (in cents) posted with the form of the index route
FormAmounts == {1250}

Min(a, b) == IF a < b THEN a ELSE b
Max(a, b) == IF a > b THEN a ELSE b

\* Python's < on str: lexicographic on code points, a proper prefix is smaller
StrLess(s, t) ==
    \E i \in 1..(Min(Len(s), Len(t)) + 1) :
        /\ \A j \in 1..(i - 1) : s[j] = t[j]
        /\ \/ (i = Len(s) + 1 /\ i <= Len(t))
           \/ (i <= Len(s) /\ i <= Len(t) /\ s[i] < t[i])

\* str.lower on the code points the model uses (ASCII letters)
lower(s) == [i \in 1..Len(s) |-> IF s[i] \in 65..90 THEN s[i] + 32 ELSE s[i]]

\* acc.fullname.replace(':', ' <arrow> ')
RECURSIVE replace_colon(_)
replace_colon(s) ==
    IF s = <<>> THEN <<>>
    ELSE (IF Head(s) = Colon THEN <<Space, Arrow, Space>> ELSE <<Head(s)>>)
         \o replace_colon(Tail(s))

\* Python's sorted(xs, key=...): stable, ascending by key.  The list is given as
\* pairs <<key(x), x>>; each element is inserted after the elements whose key is
\* not greater.
RECURSIVE InsertByKey(_, _)
InsertByKey(p, ps) ==
    IF ps = <<>> THEN <<p>>
    ELSE IF StrLess(p[1], Head(ps)[1]) THEN <<p>> \o ps
    ELSE <<Head(ps)>> \o InsertByKey(p, Tail(ps))

RECURSIVE SortPairs(_)
SortPairs(ps) ==
    IF ps = <<>> THEN <<>>
    ELSE InsertByKey(ps[Len(ps)], SortPairs(SubSeq(ps, 1, Len(ps) - 1)))

RECURSIVE Seconds(_)
Seconds(ps) == IF ps = <<>> THEN <<>> ELSE <<Head(ps)[2]>> \o Seconds(Tail(ps))

sorted(ps) == Seconds(SortPairs(ps))

Reverse(xs) == [i \in 1..Len(xs) |-> xs[Len(xs) + 1 - i]]

\* all orders in which a set of names can be stored
Perms(S) == { f \in [1..Cardinality(S) -> S] :
                \A i, j \in 1..Cardinality(S) : i # j => f[i] # f[j] }

SeqsUpTo(S, n) == UNION { [1..k -> S] : k \in 0..n }

-----------------------------------------------------------------------------
(* The book: accounts, transactions, splits *)

\* a piecash Split: a signed value (cents) on an account
Split(value, account) == [value |-> value, account |-> account]

\* a piecash Transaction (currency is always USD)
Transaction(description, enter_date, splits) ==
    [description |-> description, enter_date |-> enter_date, splits |-> splits]

\* transactions a book file may hold before the program touches it, written by
\* GnuCash itself: two splits (the negative one first), a single split, three splits
ExistingTxns(accts) ==
    IF accts = <<>> THEN {}
    ELSE LET a1 == accts[1]
             a2 == accts[Len(accts)]
         IN { Transaction("cash", "2021-01-02", <<Split(-300, a1), Split(300, a2)>>),
              Transaction("void", "2021-01-03", <<Split(0, a1)>>),
              Transaction("trip", "2021-01-04",
                          <<Split(900, a1), Split(-400, a2), Split(-500, a2)>>) }

\* piecash Split.is_debit: the split's value is positive
is_debit(split) == split.value > 0

\* Decimal.is_signed: the value is negative
is_signed(amount) == amount < 0

\* f'${amount:.2f}' of a non-negative amount of cents
FormatAmount(cents) ==
    [symbol |-> "$", whole |-> cents \div 100,
     frac |-> <<(cents % 100) \div 10, cents % 10>>]

NoAccount == 0

\* get_account: the first account of book.accounts whose full name equals
\* account_name when both are lower-cased; its index in accts, NoAccount if none
get_account(account_name, accts) ==
    LET search_name == lower(account_name)
        hits == { i \in 1..Len(accts) : lower(accts[i]) = search_name }
    IN IF hits = {} THEN NoAccount
       ELSE CHOOSE i \in hits : \A j \in hits : i <= j

\* list_accounts: sorted([x.fullname for x in book.accounts])
list_accounts(accts) == sorted([i \in 1..Len(accts) |-> <<accts[i], accts[i]>>])

\* the splits add_transaction builds: +amount on credit, -amount on debit
new_splits_same_sign(amount, credit, debit) ==
    <<Split(amount, credit), Split(amount, debit)>>

new_splits(amount, credit, debit) ==
    <<Split(amount, credit), Split(-amount, debit)>>

\* what add_transaction returns when the library raises GnucashException / ValueError
except_returns_nothing == "None"

except_GnucashException == "False"

except_ValueError == "False"

\* add_transaction on an open book whose persisted transactions are txns.
\* raised: what the library raises inside the try block: "none"; "ValueError"
\* while the splits are built (invalid numeric value); "GnucashException" in
\* book.save(), which commits all or nothing.
add_transaction(txns, accts, description, amount, debit_acct, credit_acct, raised) ==
    LET credit == get_account(credit_acct, accts)
        debit == get_account(debit_acct, accts)
        txn == Transaction(description, "today",
                           new_splits(amount, accts[credit], accts[debit]))
    IN IF credit # NoAccount /\ debit # NoAccount
       THEN CASE raised = "ValueError" ->
                   [ret |-> except_ValueError, transactions |-> txns,
                    session_new |-> <<>>]
              [] raised = "GnucashException" ->
                   [ret |-> except_GnucashException, transactions |-> txns,
                    session_new |-> <<txn>>]
              [] OTHER ->
                   [ret |-> "True", transactions |-> Append(txns, txn),
                    session_new |-> <<>>]
       ELSE IF credit # NoAccount /\ debit = NoAccount
       THEN [ret |-> "False", transactions |-> txns, session_new |-> <<>>]
       ELSE IF debit # NoAccount /\ credit = NoAccount
       THEN [ret |-> "False", transactions |-> txns, session_new |-> <<>>]
       ELSE [ret |-> "None", transactions |-> txns, session_new |-> <<>>]

\* the library (Split, Transaction, book.save) is reached, and so can raise, only
\* when both accounts were found
LibraryReached(debit_acct, credit_acct, accts) ==
    get_account(credit_acct, accts) # NoAccount /\ get_account(debit_acct, accts) # NoAccount

\* Python's xs[-n:]
slice_last(xs, n) ==
    LET start == IF -n < 0 THEN Max(Len(xs) - n, 0) ELSE Min(-n, Len(xs))
    IN SubSeq(xs, start + 1, Len(xs))

\* the test that lets last_n_transactions use a transaction
has_two_or_more_splits(trans) == Len(trans.splits) >= 2

has_two_splits(trans) == Len(trans.splits) = 2

\* which split last_n_transactions takes as the source, which as the dest
classify_first_is_source(splits) == [source |-> splits[1], dest |-> splits[2]]

classify(splits) ==
    IF is_debit(splits[1])
    THEN [source |-> splits[2], dest |-> splits[1]]
    ELSE [source |-> splits[1], dest |-> splits[2]]

\* the dict last_n_transactions builds for one transaction with two splits
txn_dict(trans) ==
    LET c == classify(trans.splits)
        amount == IF is_signed(c.dest.value) THEN -c.dest.value ELSE c.dest.value
    IN [date |-> trans.enter_date,
        source |-> c.source.account,
        dest |-> c.dest.account,
        description |-> trans.description,
        amount |-> FormatAmount(amount)]

RECURSIVE txn_dicts(_)
txn_dicts(ts) ==
    IF ts = <<>> THEN <<>>
    ELSE (IF has_two_splits(Head(ts)) THEN <<txn_dict(Head(ts))>> ELSE <<>>)
         \o txn_dicts(Tail(ts))

\* last_n_transactions(book, n)
last_n_transactions(txns, n) == txn_dicts(Reverse(slice_last(txns, n)))

\* the dict the balances route builds for one account: the displayed name (the
\* balance string is no part of the sort key and is left out)
balance_dict(fullname) == [fullname |-> replace_colon(fullname)]

\* the balances route's loop over book.accounts
RECURSIVE balance_dicts(_)
balance_dicts(accts) ==
    IF accts = <<>> THEN <<>>
    ELSE <<balance_dict(Head(accts))>> \o balance_dicts(Tail(accts))

RECURSIVE KeyedByFullname(_)
KeyedByFullname(ds) ==
    IF ds = <<>> THEN <<>>
    ELSE <<<<Head(ds).fullname, Head(ds)>>>> \o KeyedByFullname(Tail(ds))

\* the balances route's list: sorted(accounts, key=lambda x: x['fullname'])
balances_unsorted(accts) == balance_dicts(accts)

balances(accts) == sorted(KeyedByFullname(balance_dicts(accts)))

-----------------------------------------------------------------------------
(* The helpers called on an open book *)

Threads == {1, 2}

NoCall == [op |-> "none", description |-> "", amount |-> 0, debit_acct |-> <<>>,
           credit_acct |-> <<>>, raised |-> "none", n |-> 0]

BookInit ==
    /\ \E S \in AccountSets : accounts \in Perms(S)
    /\ transactions \in SeqsUpTo(ExistingTxns(accounts), MaxInitTxns)
    /\ session_new = <<>>
    /\ call = NoCall
    /\ ret = "None"
    /\ result = <<>>

AppIdle ==
    /\ NUM_TRANSACTIONS = <<MaxN>>
    /\ pc = [t \in Threads |-> "idle"]
    /\ route = [t \in Threads |-> "none"]
    /\ handle = [t \in Threads |-> "none"]
    /\ form = [t \in Threads |-> NoCall]
    /\ leaked = 0

Init == BookInit /\ AppIdle

Call_add_transaction ==
    /\ Len(transactions) < MaxTxns
    /\ \E description \in {"Lunch"}, amount \in Amounts, names \in AccountArgs,
          raised \in {"none", "GnucashException", "ValueError"} :
         LET debit_acct == names[1]
             credit_acct == names[2]
             r == add_transaction(transactions, accounts, description, amount,
                                  debit_acct, credit_acct, raised)
         IN /\ raised # "none" => LibraryReached(debit_acct, credit_acct, accounts)
            /\ call' = [op |-> "add_transaction", description |-> description,
                        amount |-> amount, debit_acct |-> debit_acct,
                        credit_acct |-> credit_acct, raised |-> raised, n |-> 0]
            /\ ret' = r.ret
            /\ transactions' = r.transactions
            /\ session_new' = r.session_new
    /\ result' = <<>>
    /\ UNCHANGED <<accounts, appvars>>

Call_last_n_transactions ==
    /\ \E n \in 0..MaxN :
         /\ call' = [NoCall EXCEPT !.op = "last_n_transactions", !.n = n]
         /\ result' = last_n_transactions(transactions, n)
    /\ ret' = "list"
    /\ session_new' = <<>>
    /\ UNCHANGED <<accounts, transactions, appvars>>

Call_balances ==
    /\ call' = [NoCall EXCEPT !.op = "balances"]
    /\ result' = balances(accounts)
    /\ ret' = "list"
    /\ session_new' = <<>>
    /\ UNCHANGED <<accounts, transactions, appvars>>

Next ==
    \/ Call_add_transaction
    \/ Call_last_n_transactions
    \/ Call_balances

Spec == Init /\ [][Next]_vars

-----------------------------------------------------------------------------
(* The routes of app.py, one request per thread at a time *)

\* open_book's defaults: readonly=False, open_if_lock=True
readonly_default == FALSE
open_if_lock_default == TRUE

\* the book file is held open for writing by some other request
LockHeld(t) == leaked > 0 \/ \E u \in Threads \ {t} : handle[u] = "rw"

\* piecash.open_book raises GnucashException: the file cannot be read, or it is
\* locked and the caller did not ask to open it anyway
piecash_open_raises(unreadable, locked, open_if_lock) ==
    unreadable \/ (locked /\ ~open_if_lock)

\* open_book(path_to_book, readonly): the book is opened and the thread moves on,
\* or the error is logged and sys.exit(1) ends the process
open_book(t, readonly, open_if_lock, next_pc) ==
    \E unreadable \in BOOLEAN :
        IF piecash_open_raises(unreadable, LockHeld(t), open_if_lock)
        THEN /\ pc' = [u \in Threads |-> "exited"]
             /\ handle' = [u \in Threads |-> "none"]
        ELSE /\ pc' = [pc EXCEPT ![t] = next_pc]
             /\ handle' = [handle EXCEPT ![t] = IF readonly THEN "ro" ELSE "rw"]

\* book.close()
close(t) == handle' = [handle EXCEPT ![t] = "none"]

\* the request is over: the response is sent (or the error handler's page)
end_request(t) ==
    /\ pc' = [pc EXCEPT ![t] = "idle"]
    /\ route' = [route EXCEPT ![t] = "none"]
    /\ form' = [form EXCEPT ![t] = NoCall]

\* the modes in which the routes open the book
index_readonly == readonly_default
transactions_readonly == readonly_default
balances_readonly == TRUE
list_accounts_readonly == TRUE

AppInit ==
    /\ accounts \in Perms({Name_A, Name_A_B})
    /\ transactions = <<>>
    /\ session_new = <<>>
    /\ call = NoCall
    /\ ret = "None"
    /\ result = <<>>
    /\ NUM_TRANSACTIONS \in {<<>>, <<1>>}
    /\ pc = [t \in Threads |-> "idle"]
    /\ route = [t \in Threads |-> "none"]
    /\ handle = [t \in Threads |-> "none"]
    /\ form = [t \in Threads |-> NoCall]
    /\ leaked = 0

\* a request arrives; a book the thread's last request left open is never closed
Request(t) ==
    /\ pc[t] = "idle"
    /\ handle[t] # "none" => leaked < MaxLeaked
    /\ \E r \in {"index", "transactions", "balances"} :
         /\ route' = [route EXCEPT ![t] = r]
         /\ pc' = [pc EXCEPT ![t] = r \o "_open"]
    /\ leaked' = IF handle[t] # "none" THEN leaked + 1 ELSE leaked
    /\ handle' = [handle EXCEPT ![t] = "none"]
    /\ UNCHANGED <<accounts, transactions, session_new, call, ret, result,
                   NUM_TRANSACTIONS, form>>

\* index: TransactionForm.new() calls list_accounts, which opens the book read-only
Index_list_accounts_open(t) ==
    /\ pc[t] = "index_open"
    /\ open_book(t, list_accounts_readonly, open_if_lock_default, "index_form")
    /\ UNCHANGED <<accounts, transactions, session_new, call, ret, result,
                   NUM_TRANSACTIONS, route, form, leaked>>

\* index: list_accounts sorts the names and closes the book; then
\* form.validate_on_submit(): a POST whose debit and credit are among the choices,
\* with a non-zero amount and a description, goes on; anything else renders the form
Index_form(t) ==
    /\ pc[t] = "index_form"
    /\ close(t)
    /\ LET choices == list_accounts(accounts)
       IN \/ /\ \E i, j \in 1..Len(choices), amount \in FormAmounts :
                  form' = [form EXCEPT ![t] =
                             [NoCall EXCEPT !.op = "add_transaction",
                                            !.description = "Lunch",
                                            !.amount = amount,
                                            !.debit_acct = choices[i],
                                            !.credit_acct = choices[j]]]
             /\ pc' = [pc EXCEPT ![t] = "index_book"]
             /\ route' = route
          \/ end_request(t)
    /\ UNCHANGED <<accounts, transactions, session_new, call, ret, result,
                   NUM_TRANSACTIONS, leaked>>

\* index: gnucash_book = open_book(path_to_book)
Index_open_book(t) ==
    /\ pc[t] = "index_book"
    /\ open_book(t, index_readonly, open_if_lock_default, "index_add")
    /\ UNCHANGED <<accounts, transactions, session_new, call, ret, result,
                   NUM_TRANSACTIONS, route, form, leaked>>

\* index: added_txn = add_transaction(gnucash_book, descrip, amount, debit, credit)
Index_add_transaction(t) ==
    /\ pc[t] = "index_add"
    /\ Len(transactions) < MaxAppTxns
    /\ \E raised \in {"none", "GnucashException", "ValueError"} :
         LET r == add_transaction(transactions, accounts, form[t].description,
                                  form[t].amount, form[t].debit_acct,
                                  form[t].credit_acct, raised)
         IN /\ call' = [form[t] EXCEPT !.raised = raised]
            /\ ret' = r.ret
            /\ transactions' = r.transactions
            /\ session_new' = r.session_new
    /\ result' = <<>>
    /\ pc' = [pc EXCEPT ![t] = "index_close"]
    /\ UNCHANGED <<accounts, NUM_TRANSACTIONS, route, handle, form, leaked>>

\* index: gnucash_book.close(), flash, redirect
Index_close(t) ==
    /\ pc[t] = "index_close"
    /\ close(t)
    /\ session_new' = <<>>
    /\ end_request(t)
    /\ UNCHANGED <<accounts, transactions, call, ret, result,
                   NUM_TRANSACTIONS, leaked>>

\* transactions: book = open_book(path_to_book)
Transactions_open_book(t) ==
    /\ pc[t] = "transactions_open"
    /\ open_book(t, transactions_readonly, open_if_lock_default, "transactions_list")
    /\ UNCHANGED <<accounts, transactions, session_new, call, ret, result,
                   NUM_TRANSACTIONS, route, form, leaked>>

\* transactions: int(get_env_var('NUM_TRANSACTIONS')) raises TypeError when the
\* variable is unset and the request ends in the error handler; otherwise
\* last_n_transactions(book, n=num_transactions)
Transactions_list(t) ==
    /\ pc[t] = "transactions_list"
    /\ IF NUM_TRANSACTIONS = <<>>
       THEN /\ end_request(t)
            /\ UNCHANGED <<call, ret, result, session_new>>
       ELSE /\ call' = [NoCall EXCEPT !.op = "last_n_transactions",
                                      !.n = NUM_TRANSACTIONS[1]]
            /\ result' = last_n_transactions(transactions, NUM_TRANSACTIONS[1])
            /\ ret' = "list"
            /\ session_new' = <<>>
            /\ pc' = [pc EXCEPT ![t] = "transactions_close"]
            /\ UNCHANGED <<route, form>>
    /\ UNCHANGED <<accounts, transactions, NUM_TRANSACTIONS, handle, leaked>>

\* transactions: book.close(), render
Transactions_close(t) ==
    /\ pc[t] = "transactions_close"
    /\ close(t)
    /\ end_request(t)
    /\ UNCHANGED <<accounts, transactions, session_new, call, ret, result,
                   NUM_TRANSACTIONS, leaked>>

\* balances: book = open_book(path_to_book, readonly=True)
Balances_open_book(t) ==
    /\ pc[t] = "balances_open"
    /\ open_book(t, balances_readonly, open_if_lock_default, "balances_list")
    /\ UNCHANGED <<accounts, transactions, session_new, call, ret, result,
                   NUM_TRANSACTIONS, route, form, leaked>>

\* balances: the loop over book.accounts and the sort
Balances_list(t) ==
    /\ pc[t] = "balances_list"
    /\ call' = [NoCall EXCEPT !.op = "balances"]
    /\ result' = balances(accounts)
    /\ ret' = "list"
    /\ session_new' = <<>>
    /\ pc' = [pc EXCEPT ![t] = "balances_close"]
    /\ UNCHANGED <<accounts, transactions, NUM_TRANSACTIONS, route, handle, form, leaked>>

\* balances: book.close(), render
Balances_close(t) ==
    /\ pc[t] = "balances_close"
    /\ close(t)
    /\ end_request(t)
    /\ UNCHANGED <<accounts, transactions, session_new, call, ret, result,
                   NUM_TRANSACTIONS, leaked>>

AppNext ==
    \E t \in Threads :
        \/ Request(t)
        \/ Index_list_accounts_open(t)
        \/ Index_form(t)
        \/ Index_open_book(t)
        \/ Index_add_transaction(t)
        \/ Index_close(t)
        \/ Transactions_open_book(t)
        \/ Transactions_list(t)
        \/ Transactions_close(t)
        \/ Balances_open_book(t)
        \/ Balances_list(t)
        \/ Balances_close(t)

AppSpec == AppInit /\ [][AppNext]_vars

-----------------------------------------------------------------------------
(* Properties of the helpers *)

Abs(x) == IF x < 0 THEN -x ELSE x

IsAdd(c) == c.op = "add_transaction"
IsLastN(c) == c.op = "last_n_transactions"

\* the account an argument of add_transaction names, when there is one
Resolved(name) == accounts[get_account(name, accounts)]
Missing(name) == \A i \in 1..Len(accounts) : lower(accounts[i]) # lower(name)

\* the elements of a finite set of integers, largest first
RECURSIVE Descending(_)
Descending(S) ==
    IF S = {} THEN <<>>
    ELSE LET m == CHOOSE x \in S : \A y \in S : y <= x
         IN <<m>> \o Descending(S \ {m})

\* C1: an add_transaction call whose debit name, credit name or both match no
\* account returns the boolean False and leaves the transactions of the book,
\* in the session and in the file, as they were.
C1_MissingAccountReturnsFalse ==
    [][ (IsAdd(call') /\ (Missing(call'.debit_acct) \/ Missing(call'.credit_acct)))
        => (ret' = "False" /\ transactions' = transactions /\ session_new' = <<>>) ]_vars

\* C2: a successful add_transaction with a positive amount appends exactly one
\* transaction; it has exactly two splits, +amount on the credit account and
\* -amount on the debit account, which sum to zero; and every transaction that
\* add_transaction has created (enter_date "today") has two splits that sum to zero.
C2_TwoBalancedSplits ==
    [][ (IsAdd(call') /\ ret' = "True" /\ call'.amount > 0)
        => /\ Len(transactions') = Len(transactions) + 1
           /\ SubSeq(transactions', 1, Len(transactions)) = transactions
           /\ LET t == transactions'[Len(transactions')]
              IN /\ Len(t.splits) = 2
                 /\ \E i, j \in 1..2 :
                      /\ i # j
                      /\ t.splits[i] = Split(call'.amount, Resolved(call'.credit_acct))
                      /\ t.splits[j] = Split(-call'.amount, Resolved(call'.debit_acct))
                 /\ t.splits[1].value + t.splits[2].value = 0
           /\ \A k \in 1..Len(transactions') :
                transactions'[k].enter_date = "today"
                => /\ Len(transactions'[k].splits) = 2
                   /\ transactions'[k].splits[1].value
                        + transactions'[k].splits[2].value = 0 ]_vars

C2_Witness ==
    /\ IsAdd(call) /\ ret = "True" /\ call.amount > 0
    /\ Len(transactions) >= 2
    /\ transactions[Len(transactions) - 1].enter_date = "today"

\* C3: last_n_transactions(book, n), n >= 0, returns at most n records, most
\* recent first, and fewer than n only when the book holds fewer than n transactions.
C3_AtMostNMostRecentFirst ==
    IsLastN(call)
    => /\ Len(result) <= call.n
       /\ Len(result) < call.n => Len(transactions) < call.n
       /\ \A k \in 1..Len(result) :
            result[k].description = transactions[Len(transactions) + 1 - k].description

\* the records last_n_transactions owes for the last n transactions of the file:
\* one per transaction with exactly two splits, the latest first
OwedRecords(n) ==
    LET last == { i \in Max(Len(transactions) - n + 1, 1)..Len(transactions) :
                    Len(transactions[i].splits) = 2 }
        order == Descending(last)
    IN [k \in 1..Len(order) |-> txn_dict(transactions[order[k]])]

\* C5: last_n_transactions returns a record for every transaction among the last
\* n that has exactly two splits, in most-recent-first order, and no record for a
\* transaction that has not; a malformed transaction does not end the listing.
\* (For n = 0 there is no "last n" to owe records for; the second conjunct still
\* says that no record comes from a malformed transaction.)
C5_MalformedSkipped ==
    IsLastN(call)
    => /\ call.n >= 1 => result = OwedRecords(call.n)
       /\ \A k \in 1..Len(result) :
            \E i \in 1..Len(transactions) :
                /\ Len(transactions[i].splits) = 2
                /\ result[k].description = transactions[i].description

C5_Witness ==
    /\ IsLastN(call) /\ call.n >= 2 /\ Len(transactions) >= 2
    /\ Len(transactions[Len(transactions)].splits) # 2
    /\ Len(transactions[Len(transactions) - 1].splits) = 2
    /\ Len(result) = 1

\* the record the reader owes after add_transaction(description, amount, debit, credit)
AddedRecord(c) ==
    [source |-> Resolved(c.debit_acct), dest |-> Resolved(c.credit_acct),
     description |-> c.description, amount |-> FormatAmount(Abs(c.amount))]

ShownAs(r, want) ==
    /\ r.source = want.source /\ r.dest = want.dest
    /\ r.description = want.description /\ r.amount = want.amount

C10_SortedByFullName ==
    call.op = "balances"
    => /\ Len(result) = Len(accounts)
       /\ \A k \in 1..Len(result) :
            result[k].fullname = replace_colon(list_accounts(accounts)[k])

\* C10 amended: the balances list has one entry per account and is ordered
\* ascending by the displayed names (the full names with ' <arrow> ' for ':').
C10_SortedByDisplayedName ==
    call.op = "balances"
    => /\ Len(result) = Len(accounts)
       /\ \A i \in 1..Len(accounts) :
            \E k \in 1..Len(result) : result[k].fullname = replace_colon(accounts[i])
       /\ \A j, k \in 1..Len(result) :
            j < k => StrLess(result[j].fullname, result[k].fullname)

C10_Witness ==
    /\ call.op = "balances" /\ Len(result) = 3
    /\ accounts[1] = Name_A2
    /\ result[2].fullname = <<65, Space, Arrow, Space, 66>>
    /\ result[3].fullname = Name_A2

-----------------------------------------------------------------------------
(* Properties of the routes *)

\* the positions at which a route holds the book it opened
ListingPositions == {"index_form", "transactions_list", "transactions_close",
                     "balances_list", "balances_close"}
AppendPositions == {"index_add", "index_close"}

\* C6: every book a route opens is closed before the request ends, on every
\* path: no request is over (and no book was dropped) with the book still open.
C6_ClosedOnEveryPath ==
    /\ \A t \in Threads : pc[t] = "idle" => handle[t] = "none"
    /\ leaked = 0

\* C7: when a second writer (the index route) opens the book while a first writer
\* still holds it open, the open fails and ends the process; two writers never
\* hold the book open for writing at the same time.
C7_SecondWriterRefused ==
    [][ /\ \A t \in Threads :
             ( /\ Index_open_book(t)
               /\ \E u \in Threads \ {t} : route[u] = "index" /\ handle[u] = "rw" )
             => pc'[t] = "exited"
        /\ ~ \E t, u \in Threads :
               /\ t # u
               /\ route'[t] = "index" /\ handle'[t] = "rw"
               /\ route'[u] = "index" /\ handle'[u] = "rw" ]_vars

\* C8: when book.save() raises GnucashException inside add_transaction (both
\* accounts exist), the call returns False, the process goes on (the route moves
\* to its close, nothing exits) and the book file holds the transactions it held.
C8_SaveErrorReturnsFalse ==
    [][ \A t \in Threads :
          (Index_add_transaction(t) /\ call'.raised = "GnucashException")
          => /\ ret' = "False"
             /\ transactions' = transactions
             /\ pc'[t] = "index_close"
             /\ \A u \in Threads : pc'[u] # "exited" ]_vars

C8_Witness ==
    \E t \in Threads :
        /\ pc[t] = "index_close"
        /\ IsAdd(call) /\ call.raised = "GnucashException" /\ ret = "False"
        /\ ~Missing(call.debit_acct) /\ ~Missing(call.credit_acct)
        /\ Len(session_new) = 1
        /\ transactions = <<>>

\* C9: the listing operations (list_accounts, the transactions listing, the
\* balances listing) hold the book read-only and only the append holds it
\* read-write; no step of a listing operation changes accounts or transactions.
C9_ReadOnlyListings ==
    [][ /\ \A t \in Threads :
             /\ pc'[t] \in ListingPositions => handle'[t] = "ro"
             /\ pc'[t] \in AppendPositions => handle'[t] = "rw"
        /\ (\E t \in Threads : pc[t] \in ListingPositions /\ pc'[t] # pc[t])
             => (accounts' = accounts /\ transactions' = transactions) ]_vars

====
